---- MODULE Spec2Model ----
(***************************************************************************)
(* A model of the API routes of the mern-stack service: routes/api/users,  *)
(* routes/api/auth, routes/api/profile and routes/api/posts over the User, *)
(* Profile and Posts collections of the document store.                    *)
(*                                                                         *)
(* Every handler is an operator from the collections it reads and the      *)
(* request to the collections it leaves behind and the response it sends;  *)
(* the action of a route applies that operator to the store and records    *)
(* the request and its response in resp.  Requests are served one at a     *)
(* time in the specifications below.                                       *)
(***************************************************************************)
EXTENDS Integers, Sequences, FiniteSets, TLC

VARIABLES
    users,        \* User collection: user id -> document
    profiles,     \* Profile collection: owning user id -> document
    posts,        \* Posts collection: post id -> document
    nextUserId,   \* next fresh ObjectId of a User
    nextPostId,   \* next fresh ObjectId of a Post
    nextCommentId,\* next fresh ObjectId of a comment
    nextEntryId,  \* next fresh ObjectId of an experience or education entry
    resp,         \* the last request served, with the response it was given
    calls,        \* the requests whose handler is between two of its awaits
    client        \* a browser: the auth store, its local storage, its requests

vars == <<users, profiles, posts, nextUserId, nextPostId, nextCommentId, nextEntryId, resp,
          calls, client>>

(***************************************************************************)
(* Bounds of the model.                                                    *)
(***************************************************************************)
MaxUsers == 2
MaxPosts == 1
MaxComments == 2
MaxEntries == 3
MaxCalls == 2

(***************************************************************************)
(* Inputs of the requests.                                                 *)
(***************************************************************************)
Names == {"", "ann"}
WellFormedEmails == {"a@x.com", "b@x.com"}
Emails == WellFormedEmails \cup {"not-an-email"}
Passwords == {"short", "pw123456", "secret99"}
Salts == {"salt1"}
Texts == {"", "hello"}
Statuses == {"", "Developer"}
Companies == {"", "acme"}
Links == {"", "youtube.com/ann"}
\* the skills field, a string given as its characters
SkillsInputs == {<<>>, <<"g", "o", ",", " ", "c">>}
\* the body of an experience and of an education request
ExperienceInputs == [title : {"", "dev"}, company : {"", "acme"}, from : {"", "2020"}]
EducationInputs == [school : {"", "mit"}, degree : {"", "bsc"},
                    fieldofstudy : {"", "cs"}, from : {"", "2016"}]

\* an id that is well formed and that no document was ever given
NoSuchId == 0
\* an id that does not cast to an ObjectId (mongoose throws a CastError of kind ObjectId)
MalformedId == -1

Identities == 1..(nextUserId - 1)
PostIdArgs == (1..(nextPostId - 1)) \cup {NoSuchId, MalformedId}
CommentIdArgs == (1..(nextCommentId - 1)) \cup {NoSuchId}
EntryIdArgs == (1..(nextEntryId - 1)) \cup {NoSuchId}

(***************************************************************************)
(* JavaScript array methods, on sequences.  JavaScript indices start at 0. *)
(***************************************************************************)
Max2(a, b) == IF a >= b THEN a ELSE b
Min2(a, b) == IF a <= b THEN a ELSE b

\* indexOf read as a position counted from 1
IndexOfOneBased(seq, v) ==
    IF \E i \in 1..Len(seq) : seq[i] = v
    THEN CHOOSE i \in 1..Len(seq) : seq[i] = v /\ \A j \in 1..(i - 1) : seq[j] # v
    ELSE -1

\* Array.prototype.indexOf: the first index holding v, or -1
IndexOf(seq, v) ==
    IF \E i \in 1..Len(seq) : seq[i] = v
    THEN (CHOOSE i \in 1..Len(seq) : seq[i] = v /\ \A j \in 1..(i - 1) : seq[j] # v) - 1
    ELSE -1

\* splice(start) without its deleteCount: removes all from start on
SpliceToEnd(seq, start, deleteCount) ==
    LET len == Len(seq)
        from == IF start < 0 THEN Max2(len + start, 0) ELSE Min2(start, len)
    IN  SubSeq(seq, 1, from)

\* Array.prototype.splice(start, deleteCount), without inserted items: a
\* negative start counts from the end of the array
Splice(seq, start, deleteCount) ==
    LET len == Len(seq)
        from == IF start < 0 THEN Max2(len + start, 0) ELSE Min2(start, len)
        cnt == Min2(Max2(deleteCount, 0), len - from)
    IN  [i \in 1..(len - cnt) |-> IF i <= from THEN seq[i] ELSE seq[i + cnt]]

\* Array.prototype.unshift(item)
Unshift(seq, item) == <<item>> \o seq

(***************************************************************************)
(* Responses.  A body is <<kind, payload>>:                                *)
(*   <<"msg", m>>     res.json({ msg: m })                                 *)
(*   <<"errors", m>>  res.json({ errors: [{ msg: m }] })                   *)
(*   <<"error", m>>   res.json({ error: [{ msg: m }] })                    *)
(*   <<"text", m>>    res.send(m)                                          *)
(*   <<"token", id>>  res.json({ token }) signed for user id               *)
(*   <<"likes", l>>, <<"comments", l>>, <<"post", p>>, <<"profile", p>>    *)
(***************************************************************************)
Msg(status, m) == [status |-> status, body |-> <<"msg", m>>]
Errors(status, ms) == [status |-> status, body |-> <<"errors", ms>>]
ServerError == [status |-> 500, body |-> <<"text", "Server Error">>]
Json(kind, payload) == [status |-> 200, body |-> <<kind, payload>>]

\* validationResult(req).array(): the messages of the checks that failed, in order
RECURSIVE FailedChecks(_)
FailedChecks(checks) ==
    IF checks = <<>> THEN <<>>
    ELSE (IF Head(checks)[1] THEN <<>> ELSE <<Head(checks)[2]>>) \o FailedChecks(Tail(checks))

\* a request as it was served: the route, the identity of the token, the ids of
\* the path, the fields of the body of an account request, and the answer
Served(op, user, id, id2, account, r) ==
    [op |-> op, user |-> user, id |-> id, id2 |-> id2, name |-> account[1],
     email |-> account[2], password |-> account[3],
     input |-> <<"none", "">>, status |-> r.status, body |-> r.body]

\* the same, with the body the request carried
Sent(kind, payload, served) == [served EXCEPT !.input = <<kind, payload>>]

NoAccount == <<"", "", "">>

\* A handler runs to its first await in one step, and from one await to the
\* next in one step; between two steps of a call the steps of other calls may
\* run.  A call holds what the handler has in its variables: the route, where
\* it stands, the identity of the token, the id of the path, the body, whether
\* the lookup found a document, and the document it read and edited.
Slots == 1..MaxCalls
Idle == [op |-> "idle", pc |-> "idle", user |-> 0, id |-> 0, sent |-> <<>>,
         found |-> FALSE, doc |-> <<>>, status |-> 0]
Call(op, pc, user, id, sent, found, doc) ==
    [op |-> op, pc |-> pc, user |-> user, id |-> id, sent |-> sent,
     found |-> found, doc |-> doc, status |-> 0]
\* the call once its response is sent
Done(call, r) == [call EXCEPT !.pc = "done", !.status = r.status]
\* a slot takes a new request when it holds none, or one that was answered
Free(s) == calls[s].pc \in {"idle", "done"}

(***************************************************************************)
(* routes/api/users.js and routes/api/auth.js                              *)
(***************************************************************************)
\* express-validator: isEmail, not().isEmpty(), isLength({ min: 6 })
IsEmail(e) == e \in WellFormedEmails
IsEmpty(s) == s = ""

\* gravatar.url(email, ...): a function of the email alone
Gravatar(email) == <<"gravatar", email>>

\* bcrypt.hash(password, salt) and bcrypt.compare(password, hash)
Hash(password, salt) == <<"bcrypt", salt, password>>
Compare(password, hash) == hash = Hash(password, hash[2])

\* the lookup made on the wrong field: User.findOne({ name: email })
UsersByName(us, email) == {id \in DOMAIN us : us[id].name = email}

\* User.findOne({ email }): the ids of the matching documents; the store
\* returns the first of them
UsersByEmail(us, email) == {id \in DOMAIN us : us[id].email = email}
Lowest(ids) == CHOOSE id \in ids : \A other \in ids : id <= other

\* jwt.sign({ user: { id } }, ...) answered as { token }
Token(id) == Json("token", id)

\* router.post('/') of routes/api/users.js: Register User
RegisterHandler(us, newId, name, email, password, salt) ==
    LET errors == FailedChecks(<<
            <<~IsEmpty(name), "Name is required">>,
            <<IsEmail(email), "Please include email">>,
            <<Len(password) >= 6, "Please enter a password with 6 or more characters">> >>)
    IN  IF errors # <<>> THEN [users |-> us] @@ Errors(400, errors)
        ELSE IF UsersByEmail(us, email) # {}
        THEN [users |-> us] @@ Errors(400, <<"User Already Exists">>)
        ELSE LET user == [name |-> name, email |-> email, avatar |-> Gravatar(email),
                          password |-> Hash(password, salt)]
             IN  [users |-> (newId :> user) @@ us] @@ Token(newId)

\* user.save() on a collection that has no index on the email
InsertUserNoIndex(us, newId, user) == [ok |-> TRUE, users |-> (newId :> user) @@ us]

\* user.save() of a new User: the collection holds one document per email and
\* rejects the insert of a second one
InsertUser(us, newId, user) ==
    IF UsersByEmail(us, user.email) # {} THEN [ok |-> FALSE, users |-> us]
    ELSE [ok |-> TRUE, users |-> (newId :> user) @@ us]

\* the register route from the save on: what is saved and what is answered
RegisterSaveHandler(us, newId, name, email, password, salt) ==
    LET user == [name |-> name, email |-> email, avatar |-> Gravatar(email),
                 password |-> Hash(password, salt)]
        saved == InsertUser(us, newId, user)
    IN  IF saved.ok THEN [users |-> saved.users] @@ Token(newId)
        ELSE [users |-> us] @@ ServerError

\* router.post('/') of routes/api/auth.js: Authenticate User and Get Token
AuthenticateHandler(us, email, password) ==
    LET errors == FailedChecks(<< <<IsEmail(email), "Please include email">> >>)
    IN  IF errors # <<>> THEN Errors(400, errors)
        ELSE IF UsersByEmail(us, email) = {}
        THEN Errors(400, <<"Invalid Credentials">>)
        ELSE LET id == Lowest(UsersByEmail(us, email))
             IN  IF ~Compare(password, us[id].password)
                 THEN [status |-> 400, body |-> <<"error", <<"Invalid Credentials">>>>]
                 ELSE Token(id)

RegisterFrom(names, emails, passwords) ==
    /\ \E name \in names, email \in emails, password \in passwords, salt \in Salts :
         LET r == RegisterHandler(users, nextUserId, name, email, password, salt)
         IN  /\ r.status = 200 => nextUserId <= MaxUsers
             /\ users' = r.users
             /\ nextUserId' = IF r.status = 200 THEN nextUserId + 1 ELSE nextUserId
             /\ resp' = Served("register", 0, 0, 0, <<name, email, password>>, r)
    /\ UNCHANGED <<profiles, posts, nextPostId, nextCommentId, nextEntryId, calls, client>>

\* a registration with any input
Register == RegisterFrom(Names, Emails, Passwords)

\* a registration with valid input, as the accounts of the profile and post
\* specifications are made
SignUp == RegisterFrom({"ann"}, WellFormedEmails, {"pw123456"})

\* the register route up to the answer of User.findOne: the request is refused
\* there, or goes on to the save
RegisterLookupFrom(names, emails, passwords) ==
    /\ \E s \in Slots, name \in names, email \in emails, password \in passwords,
          salt \in Salts :
         LET r == RegisterHandler(users, nextUserId, name, email, password, salt)
             call == Call("register", "save", 0, 0, <<name, email, password>>, FALSE, <<>>)
         IN  /\ Free(s)
             /\ IF r.status = 200
                THEN calls' = [calls EXCEPT ![s] = call] /\ UNCHANGED resp
                ELSE /\ calls' = [calls EXCEPT ![s] = Done(call, r)]
                     /\ resp' = Served("register", 0, 0, 0, <<name, email, password>>, r)
    /\ UNCHANGED <<users, profiles, posts, nextUserId, nextPostId, nextCommentId, nextEntryId, client>>

SignUpLookup == RegisterLookupFrom({"ann"}, WellFormedEmails, {"pw123456"})

\* the register route from the answer of User.findOne on: the hash, the save
\* and the token (the awaits of bcrypt touch nothing that is shared)
RegisterSave ==
    /\ \E s \in Slots, salt \in Salts :
         LET call == calls[s]
             r == RegisterSaveHandler(users, nextUserId, call.sent[1], call.sent[2],
                                      call.sent[3], salt)
         IN  /\ call.op = "register" /\ call.pc = "save"
             /\ r.status = 200 => nextUserId <= MaxUsers
             /\ users' = r.users
             /\ nextUserId' = IF r.status = 200 THEN nextUserId + 1 ELSE nextUserId
             /\ calls' = [calls EXCEPT ![s] = Done(call, r)]
             /\ resp' = Served("register", 0, 0, 0, call.sent, r)
    /\ UNCHANGED <<profiles, posts, nextPostId, nextCommentId, nextEntryId, client>>

Authenticate ==
    /\ \E email \in Emails, password \in Passwords :
         resp' = Served("authenticate", 0, 0, 0, <<"", email, password>>,
                        AuthenticateHandler(users, email, password))
    /\ UNCHANGED <<users, profiles, posts, nextUserId, nextPostId, nextCommentId, nextEntryId, calls, client>>

(***************************************************************************)
(* routes/api/posts.js                                                     *)
(***************************************************************************)
\* post.likes.map((like) => like.user.toString())
LikeUsers(likes) == [i \in 1..Len(likes) |-> likes[i].user]
\* post.comments.map((comment) => comment.user.toString())
CommentUsers(comments) == [i \in 1..Len(comments) |-> comments[i].user]

\* router.post('/'): Create a Post
CreatePostHandler(ps, us, newId, identity, text) ==
    IF IsEmpty(text) THEN [posts |-> ps] @@ Errors(400, <<"Post Content is Required.">>)
    ELSE IF identity \notin DOMAIN us
    THEN [posts |-> ps] @@ ServerError        \* user is null: user.name throws
    ELSE LET post == [user |-> identity, name |-> us[identity].name,
                      avatar |-> us[identity].avatar, text |-> text,
                      likes |-> <<>>, comments |-> <<>>]
         IN  [posts |-> (newId :> post) @@ ps] @@ Json("post", post)

\* router.get('/:id'): Get a Post by id
GetPostHandler(ps, id) ==
    IF id = MalformedId THEN Msg(404, "Post Not Found")      \* err.kind === 'ObjectId'
    ELSE IF id \notin DOMAIN ps THEN Msg(404, "Post Not Found")
    ELSE Json("post", ps[id])

\* the delete route without its check of the user
DeletePostHandlerUnchecked(ps, identity, id) ==
    IF id = MalformedId THEN [posts |-> ps] @@ Msg(404, "Post Not Found")
    ELSE IF id \notin DOMAIN ps THEN [posts |-> ps] @@ Msg(404, "Post Not Found")
    ELSE [posts |-> [p \in DOMAIN ps \ {id} |-> ps[p]]] @@ Msg(200, "Post Removed")

\* router.delete('/:id'): Delete a post by id
DeletePostHandler(ps, identity, id) ==
    IF id = MalformedId THEN [posts |-> ps] @@ Msg(404, "Post Not Found")
    ELSE IF id \notin DOMAIN ps THEN [posts |-> ps] @@ Msg(404, "Post Not Found")
    ELSE IF ps[id].user # identity THEN [posts |-> ps] @@ Msg(401, "User not authorised")
    ELSE [posts |-> [p \in DOMAIN ps \ {id} |-> ps[p]]] @@ Msg(200, "Post Removed")

\* the filter without toString(): an ObjectId is never === a string
AlreadyLikedUncast(likes, identity) == SelectSeq(likes, LAMBDA like : FALSE)

\* post.likes.filter((like) => like.user.toString() === req.user.id)
AlreadyLiked(likes, identity) == SelectSeq(likes, LAMBDA like : like.user = identity)

\* router.put('/like/:id'): Like a Post
LikeHandler(ps, identity, id) ==
    IF id = MalformedId THEN [posts |-> ps] @@ Msg(404, "Post Not Found")
    ELSE IF id \notin DOMAIN ps THEN [posts |-> ps] @@ Msg(404, "Post Not Found")
    ELSE IF Len(AlreadyLiked(ps[id].likes, identity)) > 0
    THEN [posts |-> ps] @@ Msg(400, "Post already liked")
    ELSE LET likes == Unshift(ps[id].likes, [user |-> identity])
         IN  [posts |-> [ps EXCEPT ![id].likes = likes]] @@ Json("likes", likes)

\* the unlike route looking for the post id, not the user id, in the likes
\* (no user has the ObjectId of a post: the negated id stands for it)
UnlikeHandlerWrongKey(ps, identity, id) ==
    IF id = MalformedId THEN [posts |-> ps] @@ Msg(404, "Post Not Found")
    ELSE IF id \notin DOMAIN ps THEN [posts |-> ps] @@ Msg(404, "Post Not Found")
    ELSE IF Len(AlreadyLiked(ps[id].likes, identity)) = 0
    THEN [posts |-> ps] @@ Msg(400, "Post has not yet been liked")
    ELSE LET removeIndex == IndexOf(LikeUsers(ps[id].likes), -id)
             likes == Splice(ps[id].likes, removeIndex, 1)
         IN  [posts |-> [ps EXCEPT ![id].likes = likes]] @@ Json("likes", likes)

\* router.put('/unlike/:id'): Un-Like a Post
UnlikeHandler(ps, identity, id) ==
    IF id = MalformedId THEN [posts |-> ps] @@ Msg(404, "Post Not Found")
    ELSE IF id \notin DOMAIN ps THEN [posts |-> ps] @@ Msg(404, "Post Not Found")
    ELSE IF Len(AlreadyLiked(ps[id].likes, identity)) = 0
    THEN [posts |-> ps] @@ Msg(400, "Post has not yet been liked")
    ELSE LET removeIndex == IndexOf(LikeUsers(ps[id].likes), identity)
             likes == Splice(ps[id].likes, removeIndex, 1)
         IN  [posts |-> [ps EXCEPT ![id].likes = likes]] @@ Json("likes", likes)

\* router.post('/comment/:id'): Comment on a post; the CastError of a
\* malformed id is not told apart here
\* the comment route adding the new comment with push, at the end of the list
AddCommentHandlerPush(ps, us, newId, identity, id, text) ==
    IF IsEmpty(text) THEN [posts |-> ps] @@ Errors(400, <<"Post Content is Required.">>)
    ELSE IF id = MalformedId THEN [posts |-> ps] @@ ServerError
    ELSE IF id \notin DOMAIN ps THEN [posts |-> ps] @@ Msg(404, "Post Not Found")
    ELSE IF identity \notin DOMAIN us THEN [posts |-> ps] @@ ServerError
    ELSE LET newComment == [id |-> newId, text |-> text, name |-> us[identity].name,
                            avatar |-> us[identity].avatar, user |-> identity]
             comments == Append(ps[id].comments, newComment)
         IN  [posts |-> [ps EXCEPT ![id].comments = comments]] @@ Json("comments", comments)

AddCommentHandler(ps, us, newId, identity, id, text) ==
    IF IsEmpty(text) THEN [posts |-> ps] @@ Errors(400, <<"Post Content is Required.">>)
    ELSE IF id = MalformedId THEN [posts |-> ps] @@ ServerError
    ELSE IF id \notin DOMAIN ps THEN [posts |-> ps] @@ Msg(404, "Post Not Found")
    ELSE IF identity \notin DOMAIN us
    THEN [posts |-> ps] @@ ServerError        \* user is null: user.name throws
    ELSE LET newComment == [id |-> newId, text |-> text, name |-> us[identity].name,
                            avatar |-> us[identity].avatar, user |-> identity]
             comments == Unshift(ps[id].comments, newComment)
         IN  [posts |-> [ps EXCEPT ![id].comments = comments]] @@ Json("comments", comments)

\* the comment delete route without its check of the user
RemoveCommentHandlerUnchecked(ps, identity, id, commentId) ==
    IF id = MalformedId THEN [posts |-> ps] @@ ServerError
    ELSE IF id \notin DOMAIN ps THEN [posts |-> ps] @@ Msg(404, "Post Not Found")
    ELSE LET found == SelectSeq(ps[id].comments, LAMBDA comment : comment.id = commentId)
         IN  IF found = <<>> THEN [posts |-> ps] @@ Msg(404, "Comment doesn't exists")
             ELSE LET removeIndex == IndexOf(CommentUsers(ps[id].comments), identity)
                      comments == Splice(ps[id].comments, removeIndex, 1)
                  IN  [posts |-> [ps EXCEPT ![id].comments = comments]]
                          @@ Json("comments", comments)

\* the comment delete route removing the comment at the head of the list
RemoveCommentHandlerHead(ps, identity, id, commentId) ==
    IF id = MalformedId THEN [posts |-> ps] @@ ServerError
    ELSE IF id \notin DOMAIN ps THEN [posts |-> ps] @@ Msg(404, "Post Not Found")
    ELSE LET found == SelectSeq(ps[id].comments, LAMBDA comment : comment.id = commentId)
         IN  IF found = <<>> THEN [posts |-> ps] @@ Msg(404, "Comment doesn't exists")
             ELSE IF Head(found).user # identity
             THEN [posts |-> ps] @@ Msg(401, "User not authorized")
             ELSE LET comments == Splice(ps[id].comments, 0, 1)
                  IN  [posts |-> [ps EXCEPT ![id].comments = comments]]
                          @@ Json("comments", comments)

\* router.delete('/comment/:id/:comment_id'): Delete Comment on a post
RemoveCommentHandler(ps, identity, id, commentId) ==
    IF id = MalformedId THEN [posts |-> ps] @@ ServerError
    ELSE IF id \notin DOMAIN ps THEN [posts |-> ps] @@ Msg(404, "Post Not Found")
    ELSE LET found == SelectSeq(ps[id].comments, LAMBDA comment : comment.id = commentId)
         IN  IF found = <<>> THEN [posts |-> ps] @@ Msg(404, "Comment doesn't exists")
             ELSE IF Head(found).user # identity
             THEN [posts |-> ps] @@ Msg(401, "User not authorized")
             ELSE LET removeIndex == IndexOf(CommentUsers(ps[id].comments), identity)
                      comments == Splice(ps[id].comments, removeIndex, 1)
                  IN  [posts |-> [ps EXCEPT ![id].comments = comments]]
                          @@ Json("comments", comments)

\* post.save() that writes only if the document is still as it was read
SavePostGuarded(ps, id, read, edited) ==
    IF id \in DOMAIN ps /\ ps[id] = read
    THEN [ok |-> TRUE, posts |-> [ps EXCEPT ![id] = edited]]
    ELSE [ok |-> FALSE, posts |-> ps]

\* post.save() of a post that was read and edited: the whole document is
\* written back, whatever was written to it since it was read
SavePost(ps, id, read, edited) ==
    IF id \in DOMAIN ps THEN [ok |-> TRUE, posts |-> [ps EXCEPT ![id] = edited]]
    ELSE [ok |-> FALSE, posts |-> ps]

\* the like route from the answer of Posts.findById on: the check and the
\* edit are made on the document that was read, then it is saved
LikeWriteHandler(ps, identity, id, read) ==
    LET r == LikeHandler(id :> read, identity, id)
        saved == SavePost(ps, id, read, r.posts[id])
    IN  IF r.status # 200 THEN [posts |-> ps, status |-> r.status, body |-> r.body]
        ELSE IF saved.ok THEN [posts |-> saved.posts, status |-> 200, body |-> r.body]
        ELSE [posts |-> ps] @@ ServerError

CreatePost ==
    /\ \E identity \in Identities, text \in Texts :
         LET r == CreatePostHandler(posts, users, nextPostId, identity, text)
         IN  /\ r.status = 200 => nextPostId <= MaxPosts
             /\ posts' = r.posts
             /\ nextPostId' = IF r.status = 200 THEN nextPostId + 1 ELSE nextPostId
             /\ resp' = Sent("text", text, Served("createPost", identity, 0, 0, NoAccount, r))
    /\ UNCHANGED <<users, profiles, nextUserId, nextCommentId, nextEntryId, calls, client>>

GetPost ==
    /\ \E identity \in Identities, id \in PostIdArgs :
         resp' = Served("getPost", identity, id, 0, NoAccount, GetPostHandler(posts, id))
    /\ UNCHANGED <<users, profiles, posts, nextUserId, nextPostId, nextCommentId, nextEntryId, calls, client>>

DeletePost ==
    /\ \E identity \in Identities, id \in PostIdArgs :
         LET r == DeletePostHandler(posts, identity, id)
         IN  /\ posts' = r.posts
             /\ resp' = Served("deletePost", identity, id, 0, NoAccount, r)
    /\ UNCHANGED <<users, profiles, nextUserId, nextPostId, nextCommentId, nextEntryId, calls, client>>

Like ==
    /\ \E identity \in Identities, id \in PostIdArgs :
         LET r == LikeHandler(posts, identity, id)
         IN  /\ posts' = r.posts
             /\ resp' = Served("like", identity, id, 0, NoAccount, r)
    /\ UNCHANGED <<users, profiles, nextUserId, nextPostId, nextCommentId, nextEntryId, calls, client>>

Unlike ==
    /\ \E identity \in Identities, id \in PostIdArgs :
         LET r == UnlikeHandler(posts, identity, id)
         IN  /\ posts' = r.posts
             /\ resp' = Served("unlike", identity, id, 0, NoAccount, r)
    /\ UNCHANGED <<users, profiles, nextUserId, nextPostId, nextCommentId, nextEntryId, calls, client>>

AddComment ==
    /\ \E identity \in Identities, id \in PostIdArgs, text \in Texts :
         LET r == AddCommentHandler(posts, users, nextCommentId, identity, id, text)
         IN  /\ r.status = 200 => nextCommentId <= MaxComments
             /\ posts' = r.posts
             /\ nextCommentId' = IF r.status = 200 THEN nextCommentId + 1 ELSE nextCommentId
             /\ resp' = Sent("text", text, Served("addComment", identity, id, 0, NoAccount, r))
    /\ UNCHANGED <<users, profiles, nextUserId, nextPostId, nextEntryId, calls, client>>

\* the like route up to the answer of Posts.findById: no post, or the post
LikeRead ==
    /\ \E s \in Slots, identity \in Identities, id \in PostIdArgs :
         LET r == GetPostHandler(posts, id)
             call == Call("like", "write", identity, id, <<>>, r.status = 200,
                          IF r.status = 200 THEN posts[id] ELSE <<>>)
         IN  /\ Free(s)
             /\ IF r.status = 200
                THEN calls' = [calls EXCEPT ![s] = call] /\ UNCHANGED resp
                ELSE /\ calls' = [calls EXCEPT ![s] = Done(call, r)]
                     /\ resp' = Served("like", identity, id, 0, NoAccount, r)
    /\ UNCHANGED <<users, profiles, posts, nextUserId, nextPostId, nextCommentId, nextEntryId, client>>

\* the like route from there on
LikeWrite ==
    /\ \E s \in Slots :
         LET call == calls[s]
             r == LikeWriteHandler(posts, call.user, call.id, call.doc)
         IN  /\ call.op = "like" /\ call.pc = "write"
             /\ posts' = r.posts
             /\ calls' = [calls EXCEPT ![s] = Done(call, r)]
             /\ resp' = Served("like", call.user, call.id, 0, NoAccount, r)
    /\ UNCHANGED <<users, profiles, nextUserId, nextPostId, nextCommentId, nextEntryId, client>>

RemoveComment ==
    /\ \E identity \in Identities, id \in PostIdArgs, commentId \in CommentIdArgs :
         LET r == RemoveCommentHandler(posts, identity, id, commentId)
         IN  /\ posts' = r.posts
             /\ resp' = Served("removeComment", identity, id, commentId, NoAccount, r)
    /\ UNCHANGED <<users, profiles, nextUserId, nextPostId, nextCommentId, nextEntryId, calls, client>>

(***************************************************************************)
(* routes/api/profile.js                                                   *)
(***************************************************************************)
\* String.prototype.split(','), on a string given as its characters
RECURSIVE SplitComma(_, _)
SplitComma(chars, piece) ==
    IF chars = <<>> THEN <<piece>>
    ELSE IF Head(chars) = "," THEN <<piece>> \o SplitComma(Tail(chars), <<>>)
    ELSE SplitComma(Tail(chars), Append(piece, Head(chars)))

\* String.prototype.trim()
RECURSIVE TrimStart(_)
TrimStart(chars) ==
    IF chars # <<>> /\ Head(chars) = " " THEN TrimStart(Tail(chars)) ELSE chars
RECURSIVE TrimEnd(_)
TrimEnd(chars) ==
    IF chars # <<>> /\ chars[Len(chars)] = " "
    THEN TrimEnd(SubSeq(chars, 1, Len(chars) - 1)) ELSE chars
Trim(chars) == TrimEnd(TrimStart(chars))

\* skills.split(',').map((skill) => skill.trim())
ParseSkills(chars) ==
    LET pieces == SplitComma(chars, <<>>)
    IN  [i \in 1..Len(pieces) |-> Trim(pieces[i])]

\* profile.experiences.map((item) => item.id)
EntryIds(entries) == [i \in 1..Len(entries) |-> entries[i].id]

\* findOneAndRemove: the collection without the document of the key, if any
Without(f, key) == [k \in DOMAIN f \ {key} |-> f[k]]

\* the upsert route without its check of the skills
UpsertHandlerNoSkillsCheck(prs, identity, company, status, skills, youtube) ==
    LET errors == FailedChecks(<< <<~IsEmpty(status), "Status is Required">> >>)
    IN  IF errors # <<>> THEN [profiles |-> prs] @@ Errors(400, errors)
        ELSE IF identity \in DOMAIN prs
        THEN LET old == prs[identity]
                 profile == [old EXCEPT
                     !.company = IF company # "" THEN company ELSE @,
                     !.status = status,
                     !.skills = ParseSkills(skills),
                     !.social = [youtube |-> youtube]]
             IN  [profiles |-> [prs EXCEPT ![identity] = profile]] @@ Json("profile", profile)
        ELSE LET profile == [user |-> identity, company |-> company, status |-> status,
                             skills |-> ParseSkills(skills),
                             social |-> [youtube |-> youtube],
                             experiences |-> <<>>, education |-> <<>>]
             IN  [profiles |-> (identity :> profile) @@ prs] @@ Json("profile", profile)


\* router.post('/'): Create or Update User Profile
UpsertHandler(prs, identity, company, status, skills, youtube) ==
    LET errors == FailedChecks(<< <<~IsEmpty(status), "Status is Required">>,
                                  <<skills # <<>>, "Skills is Required">> >>)
    IN  IF errors # <<>> THEN [profiles |-> prs] @@ Errors(400, errors)
        ELSE IF identity \in DOMAIN prs
        THEN LET old == prs[identity]
                 profile == [old EXCEPT
                     !.company = IF company # "" THEN company ELSE @,
                     !.status = status,
                     !.skills = ParseSkills(skills),
                     !.social = [youtube |-> youtube]]
             IN  [profiles |-> [prs EXCEPT ![identity] = profile]] @@ Json("profile", profile)
        ELSE LET profile == [user |-> identity, company |-> company, status |-> status,
                             skills |-> ParseSkills(skills),
                             social |-> [youtube |-> youtube],
                             experiences |-> <<>>, education |-> <<>>]
             IN  [profiles |-> (identity :> profile) @@ prs] @@ Json("profile", profile)

\* the delete route without the removal of the user
DeleteOwnHandlerProfileOnly(prs, us, identity) ==
    [profiles |-> Without(prs, identity), users |-> us] @@ Msg(200, "User Deleted")

\* router.delete('/'): removes the profile, then the user
DeleteOwnHandler(prs, us, identity) ==
    [profiles |-> Without(prs, identity), users |-> Without(us, identity)]
        @@ Msg(200, "User Deleted")

\* router.put('/experience'): Add Profile Experiences
AddExperienceHandler(prs, newId, identity, entry) ==
    LET errors == FailedChecks(<< <<~IsEmpty(entry.title), "Title is required!">>,
                                  <<~IsEmpty(entry.company), "Company is required!">>,
                                  <<~IsEmpty(entry.from), "From Date is required!">> >>)
    IN  IF errors # <<>> THEN [profiles |-> prs] @@ Errors(400, errors)
        ELSE IF identity \notin DOMAIN prs
        THEN [profiles |-> prs] @@ ServerError     \* profile is null: profile.experiences throws
        ELSE LET profile == [prs[identity] EXCEPT
                     !.experiences = Unshift(@, [id |-> newId] @@ entry)]
             IN  [profiles |-> [prs EXCEPT ![identity] = profile]] @@ Json("profile", profile)

\* router.delete('/experience/:experience_id'): DELETE Profile Experiences by ID
RemoveExperienceHandler(prs, identity, entryId) ==
    IF identity \notin DOMAIN prs
    THEN [profiles |-> prs] @@ ServerError         \* profile is null
    ELSE LET removeIndex == IndexOf(EntryIds(prs[identity].experiences), entryId)
             profile == [prs[identity] EXCEPT !.experiences = Splice(@, removeIndex, 1)]
         IN  [profiles |-> [prs EXCEPT ![identity] = profile]] @@ Json("profile", profile)

\* router.put('/education'): Add Profile Education
AddEducationHandler(prs, newId, identity, entry) ==
    LET errors == FailedChecks(<<
            <<~IsEmpty(entry.school), "School field is required!">>,
            <<~IsEmpty(entry.degree), "Degree field is required!">>,
            <<~IsEmpty(entry.fieldofstudy), "fieldofstudy field is required!">>,
            <<~IsEmpty(entry.from), "from Date is required!">> >>)
    IN  IF errors # <<>> THEN [profiles |-> prs] @@ Errors(400, errors)
        ELSE IF identity \notin DOMAIN prs
        THEN [profiles |-> prs] @@ ServerError     \* profile is null: profile.education throws
        ELSE LET profile == [prs[identity] EXCEPT
                     !.education = Unshift(@, [id |-> newId] @@ entry)]
             IN  [profiles |-> [prs EXCEPT ![identity] = profile]] @@ Json("profile", profile)

\* router.delete('/education/:education_id'): DELETE Profile education by ID
RemoveEducationHandler(prs, identity, entryId) ==
    IF identity \notin DOMAIN prs
    THEN [profiles |-> prs] @@ ServerError         \* profile is null
    ELSE LET removeIndex == IndexOf(EntryIds(prs[identity].education), entryId)
             profile == [prs[identity] EXCEPT !.education = Splice(@, removeIndex, 1)]
         IN  [profiles |-> [prs EXCEPT ![identity] = profile]] @@ Json("profile", profile)

\* profile.save() on a collection that is not keyed by the owner: the new
\* document takes the place findOne({ user }) answers from
InsertProfileUnkeyed(prs, profile) ==
    [ok |-> TRUE, profiles |-> (profile.user :> profile) @@ Without(prs, profile.user)]

\* profile.save() of a new Profile: the collection is keyed by the owner and
\* rejects the insert of a second document of one owner
InsertProfile(prs, profile) ==
    IF profile.user \in DOMAIN prs THEN [ok |-> FALSE, profiles |-> prs]
    ELSE [ok |-> TRUE, profiles |-> (profile.user :> profile) @@ prs]

\* the upsert route from the answer of Profile.findOne on.  found: the lookup
\* answered a profile.  findOneAndUpdate answers null, and res.json(null) is
\* sent, when the profile is no longer there; new Profile(profileFields) is
\* what the route saves into an empty collection.
UpsertWriteHandler(prs, identity, found, company, status, skills, youtube) ==
    IF found
    THEN IF identity \in DOMAIN prs
         THEN UpsertHandler(prs, identity, company, status, skills, youtube)
         ELSE [profiles |-> prs] @@ Json("null", "")
    ELSE LET profile ==
                 UpsertHandler(<<>>, identity, company, status, skills, youtube).profiles[identity]
             saved == InsertProfile(prs, profile)
         IN  IF saved.ok THEN [profiles |-> saved.profiles] @@ Json("profile", profile)
             ELSE [profiles |-> prs] @@ ServerError

UpsertFrom(companies, statuses, skillsInputs, links) ==
    /\ \E identity \in Identities, company \in companies, status \in statuses,
          skills \in skillsInputs, youtube \in links :
         LET r == UpsertHandler(profiles, identity, company, status, skills, youtube)
         IN  /\ profiles' = r.profiles
             /\ resp' = Sent("profile", [company |-> company, status |-> status,
                                          skills |-> skills, youtube |-> youtube],
                              Served("upsert", identity, 0, 0, NoAccount, r))
    /\ UNCHANGED <<users, posts, nextUserId, nextPostId, nextCommentId, nextEntryId, calls, client>>

\* an upsert with any input
Upsert == UpsertFrom(Companies, Statuses, SkillsInputs, Links)

\* an upsert with one valid input, as the profiles that hold the experience
\* and education lists are made
SaveProfile == UpsertFrom({"acme"}, {"Developer"}, SkillsInputs \ {<<>>}, {""})

\* the upsert route up to the answer of Profile.findOne: the request is refused
\* by the checks, or goes on to the update or to the create
UpsertLookupFrom(companies, statuses, skillsInputs, links) ==
    /\ \E s \in Slots, identity \in Identities, company \in companies, status \in statuses,
          skills \in skillsInputs, youtube \in links :
         LET r == UpsertHandler(profiles, identity, company, status, skills, youtube)
             sent == [company |-> company, status |-> status, skills |-> skills,
                      youtube |-> youtube]
             call == Call("upsert", "write", identity, 0, sent, identity \in DOMAIN profiles,
                          <<>>)
         IN  /\ Free(s)
             /\ IF r.status = 200
                THEN calls' = [calls EXCEPT ![s] = call] /\ UNCHANGED resp
                ELSE /\ calls' = [calls EXCEPT ![s] = Done(call, r)]
                     /\ resp' = Sent("profile", sent,
                                     Served("upsert", identity, 0, 0, NoAccount, r))
    /\ UNCHANGED <<users, profiles, posts, nextUserId, nextPostId, nextCommentId, nextEntryId, client>>

UpsertLookup == UpsertLookupFrom({"", "acme"}, {"Developer"}, SkillsInputs \ {<<>>}, {""})

\* the upsert route from the answer of Profile.findOne on
UpsertWrite ==
    /\ \E s \in Slots :
         LET call == calls[s]
             r == UpsertWriteHandler(profiles, call.user, call.found, call.sent.company,
                                     call.sent.status, call.sent.skills, call.sent.youtube)
         IN  /\ call.op = "upsert" /\ call.pc = "write"
             /\ profiles' = r.profiles
             /\ calls' = [calls EXCEPT ![s] = Done(call, r)]
             /\ resp' = Sent("profile", call.sent,
                             Served("upsert", call.user, 0, 0, NoAccount, r))
    /\ UNCHANGED <<users, posts, nextUserId, nextPostId, nextCommentId, nextEntryId, client>>


\* the delete route with the removal of the user's posts that it leaves undone
DeleteOwnCascade ==
    /\ \E identity \in Identities :
         LET r == DeleteOwnHandler(profiles, users, identity)
             own == {id \in DOMAIN posts : posts[id].user = identity}
         IN  /\ profiles' = r.profiles
             /\ users' = r.users
             /\ posts' = [id \in DOMAIN posts \ own |-> posts[id]]
             /\ resp' = Served("deleteOwn", identity, 0, 0, NoAccount, r)
    /\ UNCHANGED <<nextUserId, nextPostId, nextCommentId, nextEntryId, calls, client>>

DeleteOwn ==
    /\ \E identity \in Identities :
         LET r == DeleteOwnHandler(profiles, users, identity)
         IN  /\ profiles' = r.profiles
             /\ users' = r.users
             /\ resp' = Served("deleteOwn", identity, 0, 0, NoAccount, r)
    /\ UNCHANGED <<posts, nextUserId, nextPostId, nextCommentId, nextEntryId, calls, client>>

\* the delete route up to the answer of Profile.findOneAndRemove; found: a
\* profile was there to remove
DeleteRemoveProfile ==
    /\ \E s \in Slots, identity \in Identities :
         /\ Free(s)
         /\ profiles' = DeleteOwnHandler(profiles, users, identity).profiles
         /\ calls' = [calls EXCEPT ![s] = Call("deleteOwn", "user", identity, 0, <<>>,
                                               identity \in DOMAIN profiles, <<>>)]
    /\ UNCHANGED <<users, posts, nextUserId, nextPostId, nextCommentId, nextEntryId, resp, client>>

\* the delete route from there on: User.findOneAndRemove and the answer
DeleteRemoveUser ==
    /\ \E s \in Slots :
         LET call == calls[s]
             r == DeleteOwnHandler(profiles, users, call.user)
         IN  /\ call.op = "deleteOwn" /\ call.pc = "user"
             /\ users' = r.users
             /\ calls' = [calls EXCEPT ![s] = Done(call, r)]
             /\ resp' = Served("deleteOwn", call.user, 0, 0, NoAccount, r)
    /\ UNCHANGED <<profiles, posts, nextUserId, nextPostId, nextCommentId, nextEntryId, client>>

AddExperience ==
    /\ \E identity \in Identities, entry \in ExperienceInputs :
         LET r == AddExperienceHandler(profiles, nextEntryId, identity, entry)
         IN  /\ r.status = 200 => nextEntryId <= MaxEntries
             /\ profiles' = r.profiles
             /\ nextEntryId' = IF r.status = 200 THEN nextEntryId + 1 ELSE nextEntryId
             /\ resp' = Sent("entry", entry, Served("addExperience", identity, 0, 0, NoAccount, r))
    /\ UNCHANGED <<users, posts, nextUserId, nextPostId, nextCommentId, calls, client>>

RemoveExperience ==
    /\ \E identity \in Identities, entryId \in EntryIdArgs :
         LET r == RemoveExperienceHandler(profiles, identity, entryId)
         IN  /\ profiles' = r.profiles
             /\ resp' = Served("removeExperience", identity, entryId, 0, NoAccount, r)
    /\ UNCHANGED <<users, posts, nextUserId, nextPostId, nextCommentId, nextEntryId, calls, client>>

AddEducation ==
    /\ \E identity \in Identities, entry \in EducationInputs :
         LET r == AddEducationHandler(profiles, nextEntryId, identity, entry)
         IN  /\ r.status = 200 => nextEntryId <= MaxEntries
             /\ profiles' = r.profiles
             /\ nextEntryId' = IF r.status = 200 THEN nextEntryId + 1 ELSE nextEntryId
             /\ resp' = Sent("entry", entry, Served("addEducation", identity, 0, 0, NoAccount, r))
    /\ UNCHANGED <<users, posts, nextUserId, nextPostId, nextCommentId, calls, client>>

RemoveEducation ==
    /\ \E identity \in Identities, entryId \in EntryIdArgs :
         LET r == RemoveEducationHandler(profiles, identity, entryId)
         IN  /\ profiles' = r.profiles
             /\ resp' = Served("removeEducation", identity, entryId, 0, NoAccount, r)
    /\ UNCHANGED <<users, posts, nextUserId, nextPostId, nextCommentId, nextEntryId, calls, client>>

(***************************************************************************)
(* client/src/reducers/auth.js and client/src/actions/auth.js              *)
(***************************************************************************)
\* null, where a token or a user is expected
NoToken == 0

\* initialState of the reducer, in a page that finds the token stored in its
\* local storage: no header set yet, no request under way
Browser(stored) ==
    [state |-> [token |-> stored, isAuthenticated |-> "null", isLoading |-> TRUE,
                user |-> NoToken],
     localStorage |-> stored,
     header |-> NoToken,
     loading |-> <<>>]

\* authReducer(state, { type, payload }), with what it does to the local
\* storage; payload is the token of { token }, or the id of the user loaded
\* (NoToken for null)
AuthReducer(b, type, payload) ==
    IF type = "USER_LOADED"
    THEN [b EXCEPT !.state.isAuthenticated = "true", !.state.isLoading = FALSE,
                   !.state.user = payload]
    ELSE IF type \in {"REGISTER_SUCCESS", "LOGIN_SUCCESS"}
    THEN [b EXCEPT !.localStorage = payload, !.state.token = payload,
                   !.state.isAuthenticated = "true", !.state.isLoading = FALSE]
    ELSE IF type \in {"LOGOUT", "AUTH_ERROR", "LOGIN_FAIL", "REGISTER_FAIL"}
    THEN [b EXCEPT !.localStorage = NoToken, !.state.token = NoToken,
                   !.state.isAuthenticated = "false", !.state.isLoading = FALSE,
                   !.state.user = NoToken]
    ELSE b

\* loadUser() up to its await: the header is set from the local storage when
\* a token is stored there, and GET /api/auth leaves with the header
LoadUserSend(b) ==
    LET header == IF b.localStorage # NoToken THEN b.localStorage ELSE b.header
    IN  [b EXCEPT !.header = header, !.loading = Append(@, header)]

\* the auth middleware: a request without a token is refused as Unauthorized,
\* one with a token goes on with the identity the token was issued for
Gate(token) ==
    IF token = NoToken THEN [ok |-> FALSE] @@ Msg(401, "Unauthorized")
    ELSE [ok |-> TRUE, user |-> token]

\* router.get('/') of routes/api/auth.js: the user of the token, null when
\* there is none
GetAuthHandler(us, token) ==
    LET gate == Gate(token)
    IN  IF ~gate.ok THEN [status |-> gate.status, body |-> gate.body]
        ELSE Json("user", IF gate.user \in DOMAIN us THEN gate.user ELSE NoToken)

\* register(formData): POST /api/users, then REGISTER_SUCCESS and loadUser(),
\* or REGISTER_FAIL
ClientRegister ==
    /\ \E email \in WellFormedEmails, salt \in Salts :
         LET r == RegisterHandler(users, nextUserId, "ann", email, "pw123456", salt)
         IN  /\ r.status = 200 => nextUserId <= MaxUsers
             /\ r.status = 200 => Len(client.loading) < MaxCalls
             /\ users' = r.users
             /\ nextUserId' = IF r.status = 200 THEN nextUserId + 1 ELSE nextUserId
             /\ resp' = Served("register", 0, 0, 0, <<"ann", email, "pw123456">>, r)
             /\ client' = IF r.status = 200
                          THEN LoadUserSend(AuthReducer(client, "REGISTER_SUCCESS", r.body[2]))
                          ELSE AuthReducer(client, "REGISTER_FAIL", NoToken)
    /\ UNCHANGED <<profiles, posts, nextPostId, nextCommentId, nextEntryId, calls>>

\* login(formData): POST /api/auth, then LOGIN_SUCCESS and loadUser(), or
\* LOGIN_FAIL
ClientLogin ==
    /\ \E email \in WellFormedEmails, password \in {"pw123456", "secret99"} :
         LET r == AuthenticateHandler(users, email, password)
         IN  /\ r.status = 200 => Len(client.loading) < MaxCalls
             /\ resp' = Served("authenticate", 0, 0, 0, <<"", email, password>>, r)
             /\ client' = IF r.status = 200
                          THEN LoadUserSend(AuthReducer(client, "LOGIN_SUCCESS", r.body[2]))
                          ELSE AuthReducer(client, "LOGIN_FAIL", NoToken)
    /\ UNCHANGED <<users, profiles, posts, nextUserId, nextPostId, nextCommentId, nextEntryId,
                   calls>>

\* logout()
Logout ==
    /\ client' = AuthReducer(client, "LOGOUT", NoToken)
    /\ UNCHANGED <<users, profiles, posts, nextUserId, nextPostId, nextCommentId, nextEntryId,
                   resp, calls>>

\* loadUser() called on its own, up to its await
LoadUser ==
    /\ Len(client.loading) < MaxCalls
    /\ client' = LoadUserSend(client)
    /\ UNCHANGED <<users, profiles, posts, nextUserId, nextPostId, nextCommentId, nextEntryId,
                   resp, calls>>

\* loadUser() from its await on, for one of the requests under way: the
\* answer of GET /api/auth, then USER_LOADED or AUTH_ERROR
LoadUserDone ==
    /\ \E i \in 1..Len(client.loading) :
         LET token == client.loading[i]
             r == GetAuthHandler(users, token)
             rest == [client EXCEPT !.loading =
                          SubSeq(@, 1, i - 1) \o SubSeq(@, i + 1, Len(@))]
         IN  /\ resp' = Served("getAuth", token, 0, 0, NoAccount, r)
             /\ client' = IF r.status = 200 THEN AuthReducer(rest, "USER_LOADED", r.body[2])
                          ELSE AuthReducer(rest, "AUTH_ERROR", NoToken)
    /\ UNCHANGED <<users, profiles, posts, nextUserId, nextPostId, nextCommentId, nextEntryId,
                   calls>>

\* the page is loaded anew: the store starts from its initial state, with the
\* token of the local storage, and the requests of the old page are dropped
Reload ==
    /\ client' = Browser(client.localStorage)
    /\ UNCHANGED <<users, profiles, posts, nextUserId, nextPostId, nextCommentId, nextEntryId,
                   resp, calls>>

(***************************************************************************)
(* The specifications.  The store starts empty.                            *)
(***************************************************************************)
Init ==
    /\ users = <<>>
    /\ profiles = <<>>
    /\ posts = <<>>
    /\ nextUserId = 1
    /\ nextPostId = 1
    /\ nextCommentId = 1
    /\ nextEntryId = 1
    /\ resp = Served("none", 0, 0, 0, NoAccount, [status |-> 0, body |-> <<"none", "">>])
    /\ calls = [s \in Slots |-> Idle]
    /\ client = Browser(NoToken)

\* the accounts: registration, sign-in and account deletion
NextUsers == Register \/ Authenticate \/ DeleteOwn

SpecUsers == Init /\ [][NextUsers]_vars

\* the profiles of signed-up users
NextProfile ==
    \/ SignUp \/ SaveProfile
    \/ AddExperience \/ RemoveExperience \/ AddEducation \/ RemoveEducation

SpecProfile == Init /\ [][NextProfile]_vars

\* the likes of the posts of signed-up users
NextLikes == SignUp \/ CreatePost \/ Like \/ Unlike

SpecLikes == Init /\ [][NextLikes]_vars

\* the comments of the posts of signed-up users
NextComments == SignUp \/ CreatePost \/ AddComment \/ RemoveComment

SpecComments == Init /\ [][NextComments]_vars

\* the posts of signed-up users, with the likes and comments they gather
NextPosts == SignUp \/ CreatePost \/ GetPost \/ DeletePost \/ Like \/ AddComment

SpecPosts == Init /\ [][NextPosts]_vars

\* the routes that validate the body of the request: one account, and every
\* way for a body to fail the checks of its route
Enrol == RegisterFrom(Names, Emails \ {"b@x.com"}, {"short", "pw123456"})
Describe == UpsertFrom({"acme"}, Statuses, SkillsInputs, {""})

NextValidation ==
    Enrol \/ CreatePost \/ AddComment \/ Describe \/ AddExperience \/ AddEducation

SpecValidation == Init /\ [][NextValidation]_vars

\* the posts, likes and comments of accounts that come and go
NextAccountPosts == SignUp \/ CreatePost \/ Like \/ AddComment \/ DeleteOwn

SpecAccountPosts == Init /\ [][NextAccountPosts]_vars

\* the profile of one account as every upsert rewrites it, with its lists
NextUpsert == Enrol \/ Upsert \/ AddExperience \/ AddEducation

SpecUpsert == Init /\ [][NextUpsert]_vars

\* registrations whose lookup and save interleave, and the accounts deleted
NextRegisterRace == SignUpLookup \/ RegisterSave \/ DeleteOwn

SpecRegisterRace == Init /\ [][NextRegisterRace]_vars

\* the upserts of one account, whose lookup and write interleave
NextUpsertRace == Enrol \/ UpsertLookup \/ UpsertWrite \/ AddExperience

SpecUpsertRace == Init /\ [][NextUpsertRace]_vars

\* the deletion of an account in its two steps, among the upserts in theirs
NextDeleteRace ==
    Enrol \/ UpsertLookup \/ UpsertWrite \/ DeleteRemoveProfile \/ DeleteRemoveUser

SpecDeleteRace == Init /\ [][NextDeleteRace]_vars

\* the likes of a post, each in its read and its write
NextLikeRace == SignUp \/ CreatePost \/ LikeRead \/ LikeWrite

SpecLikeRace == Init /\ [][NextLikeRace]_vars

\* a browser that registers, signs in, loads its user and signs out
NextClient == ClientRegister \/ ClientLogin \/ Logout \/ LoadUser \/ LoadUserDone \/ Reload

SpecClient == Init /\ [][NextClient]_vars

(***************************************************************************)
(* The properties.  In a step, resp' is the request the step serves and    *)
(* the answer it is given; the unprimed variables are the store before it. *)
(***************************************************************************)
LikesBy(likes, u) == {i \in 1..Len(likes) : likes[i].user = u}
CommentsWithId(comments, c) == {i \in 1..Len(comments) : comments[i].id = c}
EntriesWithId(entries, e) == {i \in 1..Len(entries) : entries[i].id = e}
AccountsWith(email) == {id \in DOMAIN users : users[id].email = email}
Answer(status, kind, payload) == resp'.status = status /\ resp'.body = <<kind, payload>>

\* C1: every post holds at most one like of each user, and a like by a user
\* who already has a like on the post is answered 400 'Post already liked'
\* and leaves the posts, so the likes of the post, as they were.
C1_AtMostOneLikePerUser ==
    /\ [](\A p \in DOMAIN posts : \A u \in Identities :
            Cardinality(LikesBy(posts[p].likes, u)) <= 1)
    /\ [][(/\ resp'.op = "like"
           /\ resp'.id \in DOMAIN posts
           /\ LikesBy(posts[resp'.id].likes, resp'.user) # {})
          => (Answer(400, "msg", "Post already liked") /\ posts' = posts)]_vars

\* a second like by a user was refused on a post that another user likes too
C1_Witness ==
    /\ resp.op = "like" /\ resp.status = 400 /\ resp.id \in DOMAIN posts
    /\ LikesBy(posts[resp.id].likes, resp.user) # {}
    /\ Len(posts[resp.id].likes) = 2

\* C2: a successful removeComment removes the comment with the id of the
\* request and no other: the comments left are the others, in their order.
C2_RemovesTheNamedComment ==
    [][(resp'.op = "removeComment" /\ resp'.status = 200)
       => posts'[resp'.id].comments =
              SelectSeq(posts[resp'.id].comments, LAMBDA c : c.id # resp'.id2)]_vars

\* C3: removeExperience and removeEducation with an id that matches no entry
\* of the caller's profile leave the list as it was.
C3_UnknownEntryIsNoOp ==
    [][/\ (/\ resp'.op = "removeExperience"
           /\ resp'.user \in DOMAIN profiles
           /\ EntriesWithId(profiles[resp'.user].experiences, resp'.id) = {})
          => profiles'[resp'.user].experiences = profiles[resp'.user].experiences
       /\ (/\ resp'.op = "removeEducation"
           /\ resp'.user \in DOMAIN profiles
           /\ EntriesWithId(profiles[resp'.user].education, resp'.id) = {})
          => profiles'[resp'.user].education = profiles[resp'.user].education]_vars

\* C4: a delete of a post by another user than its author is answered 401
\* 'User not authorised' and leaves the posts as they were; a delete by the
\* author removes the post; a removed post never comes back (ids are not
\* given twice); and a getById of an id that names no post is answered 404.
C4_DeleteOnlyByAuthor ==
    [][/\ (/\ resp'.op = "deletePost" /\ resp'.id \in DOMAIN posts
           /\ posts[resp'.id].user # resp'.user)
          => (Answer(401, "msg", "User not authorised") /\ posts' = posts)
       /\ (/\ resp'.op = "deletePost" /\ resp'.id \in DOMAIN posts
           /\ posts[resp'.id].user = resp'.user)
          => (resp'.status = 200 /\ resp'.id \notin DOMAIN posts')
       /\ \A id \in 1..(nextPostId - 1) : id \notin DOMAIN posts => id \notin DOMAIN posts'
       /\ (resp'.op = "getPost" /\ resp'.id \notin DOMAIN posts)
          => Answer(404, "msg", "Post Not Found")]_vars

\* a delete by another user was refused on a post that has a like and a comment
C4_Witness ==
    /\ resp.op = "deletePost" /\ resp.status = 401 /\ resp.id \in DOMAIN posts
    /\ posts[resp.id].user # resp.user
    /\ posts[resp.id].likes # <<>> /\ posts[resp.id].comments # <<>>

\* C5: an unlike of a post that holds no like of the caller is answered 400
\* 'Post has not yet been liked' and leaves the posts as they were; otherwise
\* it removes the like of the caller and leaves the likes of the others, in
\* their order, and every other field and post.
C5_UnlikeRemovesOwnLikeOnly ==
    [][(resp'.op = "unlike" /\ resp'.id \in DOMAIN posts)
       => IF LikesBy(posts[resp'.id].likes, resp'.user) = {}
          THEN Answer(400, "msg", "Post has not yet been liked") /\ posts' = posts
          ELSE LET others == SelectSeq(posts[resp'.id].likes,
                                       LAMBDA like : like.user # resp'.user)
               IN  /\ Answer(200, "likes", others)
                   /\ posts' = [posts EXCEPT ![resp'.id].likes = others]]_vars

\* an unlike succeeded and the like of another user is still on the post
C5_Witness ==
    /\ resp.op = "unlike" /\ resp.status = 200
    /\ posts[resp.id].likes # <<>>
    /\ LikesBy(posts[resp.id].likes, resp.user) = {}

\* C6: on every post of every reachable store and for every user who has no
\* like on it, a like by the user followed by an unlike by the user both
\* succeed and give back the posts as they were before the like.
C6_LikeUnlikeRoundTrip ==
    \A p \in DOMAIN posts : \A u \in Identities :
        LikesBy(posts[p].likes, u) = {} =>
            LET liked == LikeHandler(posts, u, p)
                unliked == UnlikeHandler(liked.posts, u, p)
            IN  /\ liked.status = 200 /\ liked.posts # posts
                /\ unliked.status = 200 /\ unliked.posts = posts

\* an unlike was served on a post that another user likes, and the user of
\* the request can like and unlike it again
C6_Witness ==
    /\ resp.op = "unlike" /\ resp.status = 200
    /\ Len(posts[resp.id].likes) = 1
    /\ LikesBy(posts[resp.id].likes, resp.user) = {}
    /\ UnlikeHandler(LikeHandler(posts, resp.user, resp.id).posts, resp.user, resp.id).posts = posts

ValidExperience == [title |-> "dev", company |-> "acme", from |-> "2020"]
ValidEducation == [school |-> "mit", degree |-> "bsc", fieldofstudy |-> "cs", from |-> "2016"]

\* the profiles after one more request of user u on the experience list, or on
\* the education list, of a profile that has just been given the entry n: none,
\* the add of another entry, or the removal of another entry by its id
ExperienceInBetween(prs, u, n) ==
    {prs, AddExperienceHandler(prs, n + 1, u, ValidExperience).profiles}
        \cup {RemoveExperienceHandler(prs, u, prs[u].experiences[i].id).profiles :
                 i \in {j \in 1..Len(prs[u].experiences) : prs[u].experiences[j].id # n}}
EducationInBetween(prs, u, n) ==
    {prs, AddEducationHandler(prs, n + 1, u, ValidEducation).profiles}
        \cup {RemoveEducationHandler(prs, u, prs[u].education[i].id).profiles :
                 i \in {j \in 1..Len(prs[u].education) : prs[u].education[j].id # n}}

\* C7, as claimed: the add of an entry and the removal of that entry by its
\* id give back the list as it was before the add, also when another entry
\* was added or removed in between.
C7_RoundTripAcrossOtherEdits ==
    \A u \in DOMAIN profiles :
        /\ \A mid \in ExperienceInBetween(
                  AddExperienceHandler(profiles, nextEntryId, u, ValidExperience).profiles,
                  u, nextEntryId) :
              RemoveExperienceHandler(mid, u, nextEntryId).profiles[u].experiences
                  = profiles[u].experiences
        /\ \A mid \in EducationInBetween(
                  AddEducationHandler(profiles, nextEntryId, u, ValidEducation).profiles,
                  u, nextEntryId) :
              RemoveEducationHandler(mid, u, nextEntryId).profiles[u].education
                  = profiles[u].education

\* C7, amended: in every reachable store and for every profile, the add of an
\* entry followed at once by the removal of that entry by its id gives back
\* the profiles as they were, and the removal of an entry that is in the list
\* by its id removes that entry alone and keeps the others in their order.
C7_AddRemoveRoundTrip ==
    \A u \in DOMAIN profiles :
        /\ LET added == AddExperienceHandler(profiles, nextEntryId, u, ValidExperience)
           IN  /\ added.status = 200 /\ added.profiles # profiles
               /\ RemoveExperienceHandler(added.profiles, u, nextEntryId).profiles = profiles
        /\ LET added == AddEducationHandler(profiles, nextEntryId, u, ValidEducation)
           IN  /\ added.status = 200 /\ added.profiles # profiles
               /\ RemoveEducationHandler(added.profiles, u, nextEntryId).profiles = profiles
        /\ \A e \in 1..(nextEntryId - 1) :
              /\ EntriesWithId(profiles[u].experiences, e) # {} =>
                    RemoveExperienceHandler(profiles, u, e).profiles =
                        [profiles EXCEPT ![u].experiences =
                            SelectSeq(@, LAMBDA entry : entry.id # e)]
              /\ EntriesWithId(profiles[u].education, e) # {} =>
                    RemoveEducationHandler(profiles, u, e).profiles =
                        [profiles EXCEPT ![u].education =
                            SelectSeq(@, LAMBDA entry : entry.id # e)]

\* an experience was removed by its id from a profile that keeps two others
C7_Witness ==
    /\ resp.op = "removeExperience" /\ resp.status = 200 /\ resp.id # NoSuchId
    /\ resp.user \in DOMAIN profiles
    /\ Len(profiles[resp.user].experiences) = 2
    /\ nextEntryId = 4
    /\ EntriesWithId(profiles[resp.user].experiences, resp.id) = {}

\* C8: a removeComment that names no comment of the post is answered 404, one
\* that names a comment of another user is answered 401, and both leave the
\* posts as they were.
C8_RemoveCommentChecks ==
    [][(resp'.op = "removeComment" /\ resp'.id \in DOMAIN posts)
       => LET named == CommentsWithId(posts[resp'.id].comments, resp'.id2)
          IN  /\ named = {}
                 => (Answer(404, "msg", "Comment doesn't exists") /\ posts' = posts)
              /\ (\E i \in named : posts[resp'.id].comments[i].user # resp'.user)
                 => (Answer(401, "msg", "User not authorized") /\ posts' = posts)]_vars

\* the removal of the comment of another user was refused
C8_Witness ==
    /\ resp.op = "removeComment" /\ resp.status = 401 /\ resp.id \in DOMAIN posts
    /\ \E i \in CommentsWithId(posts[resp.id].comments, resp.id2) :
          posts[resp.id].comments[i].user # resp.user

\* a register call with email e and otherwise valid input is refused: it is
\* answered 400 'User Already Exists' and makes no user
RegisterRefused(e) ==
    \A name \in Names \ {""}, password \in {pw \in Passwords : Len(pw) >= 6}, salt \in Salts :
        LET r == RegisterHandler(users, nextUserId, name, e, password, salt)
        IN  r.status = 400 /\ r.body = <<"errors", <<"User Already Exists">>>> /\ r.users = users

\* C9, as claimed: once a register call with an email has succeeded, a
\* register call with that email is refused, and it is refused ever after.
C9_RefusedEverAfter ==
    [][\A e \in WellFormedEmails :
          /\ (resp'.op = "register" /\ resp'.status = 200 /\ resp'.email = e)
             => RegisterRefused(e)'
          /\ RegisterRefused(e) => RegisterRefused(e)']_vars

\* C9, amended: a register call that succeeds leaves a user with its email,
\* and while a user with an email exists every register call with that email
\* is answered 400 with an errors list ('User Already Exists' when the call
\* passes validation), makes no user and issues no token.
C9_RefusedWhileAccountExists ==
    /\ []((resp.op = "register" /\ resp.status = 200) => AccountsWith(resp.email) # {})
    /\ [][(resp'.op = "register" /\ AccountsWith(resp'.email) # {})
          => /\ resp'.status = 400 /\ resp'.body[1] = "errors"
             /\ users' = users /\ nextUserId' = nextUserId
             /\ (resp'.name # "" /\ Len(resp'.password) >= 6)
                => resp'.body[2] = <<"User Already Exists">>]_vars

\* a register call with the email of an existing user was refused
C9_Witness ==
    /\ resp.op = "register" /\ resp.status = 400
    /\ resp.body = <<"errors", <<"User Already Exists">>>>
    /\ AccountsWith(resp.email) # {}

\* C10: a failed authenticate is answered as an authenticate with an email
\* of no account is: same status and same body.
C10_SameFailureResponse ==
    (resp.op = "authenticate" /\ resp.status # 200 /\ IsEmail(resp.email))
    => \A e \in WellFormedEmails :
          AccountsWith(e) = {} =>
              LET unknown == AuthenticateHandler(users, e, resp.password)
              IN  unknown.status = resp.status /\ unknown.body = resp.body

\* C11: an addExperience or addEducation that passes validation, by an
\* identity that has no profile, is answered NotFound (400 or 404 with a
\* msg), not 500, and leaves the profiles as they were.
C11_AddWithoutProfileIsNotFound ==
    [][(/\ resp'.op \in {"addExperience", "addEducation"}
        /\ resp'.user \notin DOMAIN profiles
        /\ resp'.body[1] # "errors")
       => (/\ resp'.status \in {400, 404} /\ resp'.body[1] = "msg"
           /\ profiles' = profiles)]_vars

\* C20: every post operation that takes a post id answers 404, never 500,
\* when no post has that id, be the id well formed or malformed, and
\* changes no post (a request refused by validation apart).
C20_MissingPostIs404 ==
    [][(/\ resp'.op \in {"getPost", "deletePost", "like", "unlike",
                         "addComment", "removeComment"}
        /\ resp'.id \notin DOMAIN posts
        /\ resp'.body[1] # "errors")
       => (resp'.status = 404 /\ posts' = posts)]_vars

\* C18: a successful addComment puts one new comment at the head of the
\* post's comments, with the text of the request, the caller as its author
\* and an id no comment bears; the comments that were there follow in their
\* order, and the likes, text and author of the post, and every other post,
\* are as before.
C18_AddCommentInsertsAtHead ==
    [][(resp'.op = "addComment" /\ resp'.status = 200)
       => LET p == resp'.id
              c == posts'[p].comments[1]
          IN  /\ p \in DOMAIN posts
              /\ posts' = [posts EXCEPT ![p].comments = <<c>> \o @]
              /\ c.text = resp'.input[2]
              /\ c.user = resp'.user
              /\ \A q \in DOMAIN posts : CommentsWithId(posts[q].comments, c.id) = {}]_vars

\* a comment was added to a post that already had one, by another author
C18_Witness ==
    /\ resp.op = "addComment" /\ resp.status = 200
    /\ Len(posts[resp.id].comments) >= 2
    /\ posts[resp.id].comments[2].user # resp.user

\* the request just served carried a body that one of the route's checks
\* rejects
FailsValidation ==
    \/ /\ resp.op \in {"createPost", "addComment"}
       /\ resp.input[2] = ""
    \/ /\ resp.op = "upsert"
       /\ resp.input[2].status = "" \/ resp.input[2].skills = <<>>
    \/ /\ resp.op = "addExperience"
       /\ \E f \in {"title", "company", "from"} : resp.input[2][f] = ""
    \/ /\ resp.op = "addEducation"
       /\ \E f \in {"school", "degree", "fieldofstudy", "from"} : resp.input[2][f] = ""
    \/ /\ resp.op = "register"
       /\ resp.name = "" \/ resp.email \notin WellFormedEmails \/ Len(resp.password) < 6

\* C19: a request that fails validation is answered 400 with a list of
\* errors that is not empty, and users, profiles and posts are as before.
C19_InvalidIsRefusedUnchanged ==
    [][FailsValidation'
       => (/\ resp'.status = 400 /\ resp'.body[1] = "errors" /\ resp'.body[2] # <<>>
           /\ UNCHANGED <<users, profiles, posts>>)]_vars

\* an upsert without skills was refused while the caller has a profile
C19_Witness ==
    /\ resp.op = "upsert" /\ resp.input[2].skills = <<>> /\ resp.status = 400
    /\ resp.user \in DOMAIN profiles
    /\ posts # <<>>

\* C13: deleteOwn leaves the posts as they were: those of the caller, the
\* likes and comments on every post, and the name and avatar they carry.
C13_DeleteOwnKeepsPosts ==
    [][resp'.op = "deleteOwn" => posts' = posts]_vars

\* an account was deleted whose post, like and comment are still there
C13_Witness ==
    /\ resp.op = "deleteOwn" /\ resp.status = 200
    /\ resp.user \notin DOMAIN users
    /\ \E id \in DOMAIN posts :
         /\ posts[id].user = resp.user
         /\ posts[id].name = "ann"
         /\ LikesBy(posts[id].likes, resp.user) # {}
         /\ \E i \in 1..Len(posts[id].comments) : posts[id].comments[i].user = resp.user

\* C14: an upsert on a profile that exists leaves what the request omits as
\* it was stored: an omitted social link keeps its value, an omitted scalar
\* keeps its value, and the experience and education lists are unchanged.
C14_UpsertKeepsWhatIsOmitted ==
    [][(resp'.op = "upsert" /\ resp'.status = 200 /\ resp'.user \in DOMAIN profiles)
       => LET old == profiles[resp'.user]
              new == profiles'[resp'.user]
              sent == resp'.input[2]
          IN  /\ sent.youtube = "" => new.social.youtube = old.social.youtube
              /\ sent.company = "" => new.company = old.company
              /\ new.experiences = old.experiences
              /\ new.education = old.education]_vars

\* C16: in every state no two users have the same email, also after two
\* registrations that both looked for an account before either one saved.
C16_EmailIsUnique ==
    \A e \in Emails : Cardinality(AccountsWith(e)) <= 1

\* two registrations of one email both passed the lookup; one was saved and
\* the other was refused by the store
C16_Witness ==
    /\ \A s \in Slots : calls[s].op = "register" /\ calls[s].pc = "done"
    /\ calls[1].sent[2] = calls[2].sent[2]
    /\ calls[1].status = 200 /\ calls[2].status = 500
    /\ AccountsWith(calls[1].sent[2]) # {}

C12_DeleteOwnIsAtomic ==
    /\ (resp.op = "deleteOwn" /\ resp.status = 200)
       => (resp.user \notin DOMAIN profiles /\ resp.user \notin DOMAIN users)
    /\ \A s \in Slots :
         ~(/\ calls[s].op = "deleteOwn" /\ calls[s].pc = "user" /\ calls[s].found
           /\ calls[s].user \in DOMAIN users)

\* C12, amended: deleteOwn removes the profile and then the user, in two
\* operations of the store.  After the first the caller has no profile; when
\* deleteOwn has answered with success the caller has no user, and the second
\* operation has left the profiles as they were.
C12_DeleteOwnRemovesEachInTurn ==
    [][\A s \in Slots :
         /\ (Free(s) /\ calls'[s].op = "deleteOwn" /\ calls'[s].pc = "user")
            => (calls'[s].user \notin DOMAIN profiles' /\ users' = users)
         /\ (calls[s].op = "deleteOwn" /\ calls[s].pc = "user" /\ calls'[s].pc = "done")
            => (/\ resp'.op = "deleteOwn" /\ resp'.status = 200
                /\ resp'.user = calls[s].user
                /\ resp'.user \notin DOMAIN users'
                /\ profiles' = profiles)]_vars

\* deleteOwn has answered with success and the caller, who has no user, has a
\* profile: an upsert of the caller wrote it between the two removals
C12_Witness ==
    /\ resp.op = "deleteOwn" /\ resp.status = 200
    /\ resp.user \notin DOMAIN users
    /\ resp.user \in DOMAIN profiles

\* C15: the write-back of a like is not guarded.  A like that finds the
\* caller not among the likes it read is answered with success, and the post
\* becomes the document it read with the caller's like at the head of the
\* likes, whatever was written to the post since the read; so a like written
\* in between is lost.
C15_WriteBackIsUnguarded ==
    [][\A s \in Slots :
         (calls[s].op = "like" /\ calls[s].pc = "write" /\ calls'[s].pc = "done")
         => LET read == calls[s].doc
                u == calls[s].user
            IN  IF LikesBy(read.likes, u) # {}
                THEN calls'[s].status = 400 /\ posts' = posts
                ELSE /\ calls'[s].status = 200
                     /\ posts' = [posts EXCEPT ![calls[s].id] =
                                      [read EXCEPT !.likes = <<[user |-> u]>> \o @]]]_vars

\* two likes of one post by two users were both answered with success, and
\* the post holds one like
C15_Witness ==
    /\ \A s \in Slots : /\ calls[s].op = "like" /\ calls[s].pc = "done"
                        /\ calls[s].status = 200
    /\ calls[1].id = calls[2].id
    /\ calls[1].user # calls[2].user
    /\ Len(posts[calls[1].id].likes) = 1

\* the comments of a list that the user u wrote, and those that others wrote
CommentsOf(comments, u) == SelectSeq(comments, LAMBDA c : c.user = u)
CommentsOfOthers(comments, u) == SelectSeq(comments, LAMBDA c : c.user # u)

\* C21: removeComment never deletes a comment of another user.  Whatever the
\* answer, the comments of every post that the caller did not write are there
\* afterwards, in their order; a successful call takes exactly one comment
\* off the post, and it is one the caller wrote.
C21_RemovesOnlyOwnComment ==
    [][resp'.op = "removeComment"
       => /\ DOMAIN posts' = DOMAIN posts
          /\ \A p \in DOMAIN posts :
               CommentsOfOthers(posts'[p].comments, resp'.user)
                   = CommentsOfOthers(posts[p].comments, resp'.user)
          /\ resp'.status = 200
             => LET old == posts[resp'.id].comments
                    new == posts'[resp'.id].comments
                IN  /\ Len(new) = Len(old) - 1
                    /\ Len(CommentsOf(new, resp'.user)) = Len(CommentsOf(old, resp'.user)) - 1
          /\ resp'.status # 200 => posts' = posts]_vars

\* a comment was removed from a post whose first comment, still there, is of
\* another user
C21_Witness ==
    /\ resp.op = "removeComment" /\ resp.status = 200
    /\ posts[resp.id].comments # <<>>
    /\ posts[resp.id].comments[1].user # resp.user
    /\ resp.body[2] = posts[resp.id].comments

\* C22: in the auth store of the client, after any actions, a USER_LOADED of
\* a loadUser that began before a LOGOUT and ended after it among them,
\* isAuthenticated true implies a token that is not null, and the token of
\* the store is the token of the local storage.
C22_AuthenticatedHasToken ==
    /\ client.state.isAuthenticated = "true" => client.state.token # NoToken
    /\ client.state.token = client.localStorage

====
